---- MODULE Spec2Model ----
(***************************************************************************)
(* Model of scenic/core/sample_checking.py: the SampleChecker contract and *)
(* its two implementations, BasicChecker and WeightedAcceptanceChecker.    *)
(*                                                                         *)
(* The model follows one checker instance, of either class, and the calls  *)
(* a single-threaded caller makes on it.                                    *)
(*                                                                         *)
(* A requirement is an opaque external object.  The model names the        *)
(* requirements passed to setRequirements by their position in that        *)
(* sequence (1, 2, ...), so "original order" is the order of these names   *)
(* and no requirement occurs twice in the sequence.  A requirement's class *)
(* (`kind`) is read only inside BasicChecker.setRequirements and travels   *)
(* with the argument of that call; `optional` and `active` are attributes  *)
(* of the requirement objects, `active` being the one the environment      *)
(* changes between calls.  A sample is modelled by what falsifiedBy does   *)
(* on it: the set of requirements for which it returns true, and the       *)
(* requirement, if any, on which it raises (a call ends at the first       *)
(* raise, so what a second raising requirement would do is never seen).    *)
(* Elapsed times (differences of time.perf_counter()) are whole ticks.     *)
(***************************************************************************)
EXTENDS Integers, Sequences, FiniteSets, TLC

\* ------------------------------------------------------------- bounds
\* Longest sequence given to BasicChecker.setRequirements.
MaxReqs == 4

\* Longest sequence given to WeightedAcceptanceChecker.setRequirements.
MaxWeightedReqs == 3

\* Largest bufferSize a WeightedAcceptanceChecker is constructed with.
MaxBufferSize == 2

\* Number of WeightedAcceptanceChecker.checkRequirements calls followed.
MaxCalls == 2

\* Longest elapsed time of one falsifiedBy call, in ticks.
MaxTime == 1

\* Longest sequence given to WeightedAcceptanceChecker.setRequirements when the
\* checkRequirements calls that follow are not counted.
MaxLiveReqs == 2

\* ---------------------------------------------------------- constants
\* `>= 3` in BasicChecker.setRequirements.
IntersectionThreshold == 3

\* Python's None, as the value of SampleChecker.requirements before
\* setRequirements (0 names no requirement, so <<0>> is no requirement tuple).
None == <<0>>

\* What checkRequirements returns when no requirement rejects (Python None).
NoViolation == "None"

\* How a call ended: it returned, or it raised.
NoError == "returned"

\* The classes BasicChecker.setRequirements tests with isinstance.
Kinds == {"Intersection", "BlanketCollision", "Other"}

\* The attributes of a requirement that setRequirements reads.
Descriptor == [optional : BOOLEAN, kind : Kinds]

\* req.violationMsg
violationMsg(r) == "violated " \o ToString(r)

\* req.falsifiedBy(sample), when it returns
falsifiedBy(r, sample) == r \in sample

\* No requirement: falsifiedBy raises on none of them.
NoRaiser == 0

\* req.falsifiedBy(sample) raises
Raises(r, raiser) == r = raiser

\* time.perf_counter() - start
Times == 0..MaxTime

Range(s) == {s[i] : i \in DOMAIN s}

VARIABLES
    active,     \* req.active of every requirement, as it is now
    optional,   \* req.optional of the requirements given to setRequirements
    checker,    \* the checker instance and its fields
    history,    \* per requirement, every metric pushed for it, most recent first
    calls,      \* number of weighted checkRequirements calls made
    call        \* the call that has just returned, if any

vars == <<active, optional, checker, history, calls, call>>

\* The requirements the successful setRequirements was called with.
Given == DOMAIN optional

\* No call has just returned (the caller has moved on).
NoCall ==
    [op |-> "none", error |-> NoError, requirements |-> <<>>, sample |-> {},
     raiser |-> NoRaiser, order |-> <<>>, evaluated |-> <<>>,
     result |-> NoViolation]

\* ------------------------------------------------ SampleChecker (base)

\* Mutant: the assertion left out.
AssertUnconfiguredMissing(requirements) == TRUE

\* `assert self.requirements is None`
AssertUnconfigured(requirements) == requirements = None

\* Mutant: the assertion left out.
AssertConfiguredMissing(requirements) == TRUE

\* `assert self.requirements is not None`
AssertConfigured(requirements) == requirements # None

\* ------------------------------------------------------- BasicChecker

\* Mutant: only the non-optional intersection requirements are counted.
NumIntersectionNonOptional(requirements) ==
    Cardinality({i \in DOMAIN requirements :
                    requirements[i].kind = "Intersection" /\ ~requirements[i].optional})

\* sum(isinstance(r, IntersectionRequirement) for r in requirements)
NumIntersection(requirements) ==
    Cardinality({i \in DOMAIN requirements : requirements[i].kind = "Intersection"})

\* The condition under which the loop appends requirement i to target_reqs.
Retained(requirements, i, initialCollisionCheck) ==
    IF requirements[i].optional
    THEN /\ requirements[i].kind = "BlanketCollision"
         /\ initialCollisionCheck
         /\ NumIntersection(requirements) >= IntersectionThreshold
    ELSE TRUE

\* The loop of BasicChecker.setRequirements from position i on: target_reqs.
RECURSIVE TargetReqsFrom(_, _, _)
TargetReqsFrom(requirements, i, initialCollisionCheck) ==
    IF i > Len(requirements) THEN <<>>
    ELSE (IF Retained(requirements, i, initialCollisionCheck) THEN <<i>> ELSE <<>>)
         \o TargetReqsFrom(requirements, i + 1, initialCollisionCheck)

\* Mutant: each retained requirement is put at the front of target_reqs.
TargetReqsPrepended(requirements, initialCollisionCheck) ==
    LET RECURSIVE Rev(_)
        Rev(t) == IF t = <<>> THEN <<>> ELSE Append(Rev(Tail(t)), Head(t))
    IN Rev(TargetReqsFrom(requirements, 1, initialCollisionCheck))

TargetReqs(requirements, initialCollisionCheck) ==
    TargetReqsFrom(requirements, 1, initialCollisionCheck)

\* Mutant: the active flag is not looked at.
BasicEvaluatesInactive(r) == TRUE

\* `req.active and ...`: whether the loop calls falsifiedBy on r.
BasicEvaluates(r) == active[r]

\* BasicChecker.checkRequirementsInner from position i of self.requirements on;
\* `evaluated` lists the requirements whose falsifiedBy has been called and
\* has returned.  Nothing catches what falsifiedBy raises.
RECURSIVE BasicInnerFrom(_, _, _, _, _)
BasicInnerFrom(requirements, i, sample, raiser, evaluated) ==
    IF i > Len(requirements)
    THEN [result |-> NoViolation, evaluated |-> evaluated, error |-> NoError]
    ELSE LET req == requirements[i] IN
         IF BasicEvaluates(req)
         THEN IF Raises(req, raiser)
              THEN [result |-> NoViolation, evaluated |-> evaluated,
                    error |-> "Exception"]
              ELSE IF falsifiedBy(req, sample)
              THEN [result |-> violationMsg(req), evaluated |-> Append(evaluated, req),
                    error |-> NoError]
              ELSE BasicInnerFrom(requirements, i + 1, sample, raiser,
                                  Append(evaluated, req))
         ELSE BasicInnerFrom(requirements, i + 1, sample, raiser, evaluated)

BasicCheckRequirementsInner(requirements, sample, raiser) ==
    BasicInnerFrom(requirements, 1, sample, raiser, <<>>)

\* ------------------------------------------ WeightedAcceptanceChecker

\* deque(maxlen=bufferSize) extended with [(0,0)]*bufferSize
InitialBuffer(bufferSize) == [i \in 1..bufferSize |-> <<0, 0>>]

\* Mutant: deque.append, the new entry at the back and the first one discarded.
AppendRight(buffer, metrics, bufferSize) ==
    SubSeq(buffer \o <<metrics>>, 2, bufferSize + 1)

\* Mutant: a deque without maxlen, nothing is ever discarded.
AppendLeftUnbounded(buffer, metrics, bufferSize) == <<metrics>> \o buffer

\* deque.appendleft on a deque of maxlen bufferSize: the new entry goes to the
\* front and, the deque being full, the last entry is discarded.
AppendLeft(buffer, metrics, bufferSize) ==
    SubSeq(<<metrics>> \o buffer, 1, bufferSize)

\* Mutant: the checker's buffers are one shared deque (dict.fromkeys).
updateMetricsAll(buffers, req, metrics, bufferSize) ==
    [r \in DOMAIN buffers |-> AppendLeft(buffers[r], metrics, bufferSize)]

\* WeightedAcceptanceChecker.updateMetrics
updateMetrics(buffers, req, metrics, bufferSize) ==
    [buffers EXCEPT ![req] = AppendLeft(@, metrics, bufferSize)]

\* sum(metric[f] for metric in target_buffer)
RECURSIVE SumField(_, _)
SumField(buffer, f) ==
    IF buffer = <<>> THEN 0 ELSE Head(buffer)[f] + SumField(Tail(buffer), f)

\* Mutant: the means are taken over the entries pushed so far (those that are
\* not the initial fill), not over bufferSize.
getWeightedAcceptanceProbFilled(buffers, req, bufferSize) ==
    LET filled == Cardinality({i \in DOMAIN buffers[req] :
                                  buffers[req][i] # <<0, 0>>})
        n == IF filled = 0 THEN 1 ELSE filled
    IN <<SumField(buffers[req], 1) * SumField(buffers[req], 2), n * n>>

\* WeightedAcceptanceChecker.getWeightedAcceptanceProb: mean_accept * mean_time,
\* kept exact as the fraction <<numerator, denominator>>.
getWeightedAcceptanceProb(buffers, req, bufferSize) ==
    <<SumField(buffers[req], 1) * SumField(buffers[req], 2), bufferSize * bufferSize>>

\* Mutant: the sort is descending (reverse=True).
KeyGreater(x, y) == y[1] * x[2] < x[1] * y[2]

\* x < y for two such fractions (denominators are positive).
KeyLess(x, y) == x[1] * y[2] < y[1] * x[2]

\* Mutant: the filter on req.active is left out.
ActiveReqsAll(requirements) == requirements

\* [req for req in self.requirements if req.active]
ActiveReqs(requirements) == SelectSeq(requirements, LAMBDA r : active[r])

\* Mutant: an unstable sort, r going before the elements of equal key.
SortInsertBeforeEqual(sorted, r, buffers, bufferSize) ==
    LET key(x) == getWeightedAcceptanceProb(buffers, x, bufferSize)
        p == Cardinality({i \in DOMAIN sorted : KeyLess(key(sorted[i]), key(r))})
    IN SubSeq(sorted, 1, p) \o <<r>> \o SubSeq(sorted, p + 1, Len(sorted))

\* One step of the stable sort: r, which follows every element of `sorted` in
\* the list being sorted, goes after the elements whose key is not greater.
SortInsert(sorted, r, buffers, bufferSize) ==
    LET key(x) == getWeightedAcceptanceProb(buffers, x, bufferSize)
        p == Cardinality({i \in DOMAIN sorted : ~KeyLess(key(r), key(sorted[i]))})
    IN SubSeq(sorted, 1, p) \o <<r>> \o SubSeq(sorted, p + 1, Len(sorted))

\* Mutant: the list is left as it is (sorted(reqs, ...) with its result dropped).
SortByKeyUnsorted(reqs, buffers, bufferSize) == reqs

\* reqs.sort(key=self.getWeightedAcceptanceProb): ascending and stable.
RECURSIVE SortByKey(_, _, _)
SortByKey(reqs, buffers, bufferSize) ==
    IF reqs = <<>> THEN <<>>
    ELSE SortInsert(SortByKey(SubSeq(reqs, 1, Len(reqs) - 1), buffers, bufferSize),
                    reqs[Len(reqs)], buffers, bufferSize)

\* Mutant: every optional requirement is removed, wherever it is.
TrimEveryOptional(reqs) == SelectSeq(reqs, LAMBDA r : ~optional[r])

\* Mutant: `while len(reqs) > 1 and reqs[-1].optional`.
RECURSIVE TrimTrailingOptionalKeepOne(_)
TrimTrailingOptionalKeepOne(reqs) ==
    IF Len(reqs) > 1 /\ optional[reqs[Len(reqs)]]
    THEN TrimTrailingOptionalKeepOne(SubSeq(reqs, 1, Len(reqs) - 1))
    ELSE reqs

\* while reqs and reqs[-1].optional: reqs.pop()
RECURSIVE TrimTrailingOptional(_)
TrimTrailingOptional(reqs) ==
    IF reqs # <<>> /\ optional[reqs[Len(reqs)]]
    THEN TrimTrailingOptional(SubSeq(reqs, 1, Len(reqs) - 1))
    ELSE reqs

\* Mutant: only the requirement of lowest score is returned.
sortedRequirementsLowestOnly(requirements, buffers, bufferSize) ==
    LET reqs == TrimTrailingOptional(SortByKey(ActiveReqs(requirements), buffers,
                                               bufferSize))
    IN IF reqs = <<>> THEN reqs ELSE <<reqs[1]>>

\* WeightedAcceptanceChecker.sortedRequirements: the list `reqs` is built and
\* sorted once, then trimmed (the set of one element names that one list).
sortedRequirements(requirements, buffers, bufferSize) ==
    CHOOSE trimmed \in {TrimTrailingOptional(reqs) :
                           reqs \in {SortByKey(ActiveReqs(requirements), buffers,
                                               bufferSize)}} : TRUE

\* Mutant: int(rejected) in place of int(not rejected).
MetricsRejected(rejected, elapsed) == <<IF rejected THEN 1 ELSE 0, elapsed>>

\* metrics = (int(not rejected), time.perf_counter()-start)
Metrics(rejected, elapsed) == <<IF rejected THEN 0 ELSE 1, elapsed>>

\* Mutant: the metric is pushed in a `finally`, also when falsifiedBy raises.
BuffersWhenRaisedRecorded(buffers, req, elapsed, bufferSize) ==
    updateMetrics(buffers, req, <<0, elapsed>>, bufferSize)

\* The buffers when falsifiedBy raises on req: the statements after the call
\* (the metrics and updateMetrics) are not reached.
BuffersWhenRaised(buffers, req, elapsed, bufferSize) == buffers

\* The loop of WeightedAcceptanceChecker.checkRequirementsInner from position i
\* of the list sortedRequirements returned; elapsed[r] is the time falsifiedBy
\* takes on requirement r in this call.  `evaluated` lists the requirements
\* whose falsifiedBy has been called and has returned.  Nothing catches what
\* falsifiedBy raises.
RECURSIVE WeightedInnerFrom(_, _, _, _, _, _, _, _)
WeightedInnerFrom(order, i, sample, elapsed, buffers, bufferSize, raiser, evaluated) ==
    IF i > Len(order)
    THEN [result |-> NoViolation, evaluated |-> evaluated, buffers |-> buffers,
          error |-> NoError]
    ELSE LET req == order[i] IN
         IF Raises(req, raiser)
         THEN [result |-> NoViolation, evaluated |-> evaluated,
               buffers |-> BuffersWhenRaised(buffers, req, elapsed[req], bufferSize),
               error |-> "Exception"]
         ELSE LET rejected == falsifiedBy(req, sample)
                  updated == updateMetrics(buffers, req,
                                           Metrics(rejected, elapsed[req]), bufferSize)
              IN IF rejected
                 THEN [result |-> violationMsg(req),
                       evaluated |-> Append(evaluated, req), buffers |-> updated,
                       error |-> NoError]
                 ELSE WeightedInnerFrom(order, i + 1, sample, elapsed, updated,
                                        bufferSize, raiser, Append(evaluated, req))

\* Mutant: the loop runs over self.requirements, not over sortedRequirements().
WeightedInnerAllRequirements(order, sample, elapsed, buffers, bufferSize, raiser) ==
    WeightedInnerFrom(checker.requirements, 1, sample, elapsed, buffers, bufferSize,
                      raiser, <<>>)

\* Mutant: `return None` inside the loop, after the first requirement.
WeightedInnerFirstOnly(order, sample, elapsed, buffers, bufferSize, raiser) ==
    WeightedInnerFrom(IF order = <<>> THEN order ELSE <<order[1]>>, 1, sample,
                      elapsed, buffers, bufferSize, raiser, <<>>)

WeightedCheckRequirementsInner(order, sample, elapsed, buffers, bufferSize, raiser) ==
    WeightedInnerFrom(order, 1, sample, elapsed, buffers, bufferSize, raiser, <<>>)

\* ------------------------------------------------------------ actions

\* The sequences a first setRequirements is called with: every sequence of up
\* to n requirements, of any attributes.
Inputs(n) == UNION {[1..m -> Descriptor] : m \in 0..n}

\* What a setRequirements on an already configured instance is tried with: one
\* sequence of one requirement (the call fails whatever it is given).
RetryInputs == {<<[optional |-> FALSE, kind |-> "Other"]>>}

SetCall(requirements, error) ==
    [NoCall EXCEPT !.op = "setRequirements", !.requirements = requirements,
                   !.error = error]

\* A checkRequirements(sample) that raised before evaluating anything.
CheckRaised(sample, raiser, error) ==
    [NoCall EXCEPT !.op = "checkRequirements", !.sample = sample,
                   !.raiser = raiser, !.error = error]

\* What falsifiedBy does on one sample: the requirements it returns true for
\* and the one, if any, it raises on.
Samples == {s \in (SUBSET Given) \X ({NoRaiser} \cup Given) : s[2] \notin s[1]}

\* BasicChecker.setRequirements(requirements)
BasicSetRequirements ==
    /\ checker.class = "BasicChecker"
    /\ \E requirements \in (IF checker.requirements = None THEN Inputs(MaxReqs)
                            ELSE RetryInputs) :
        LET target_reqs == TargetReqs(requirements, checker.initialCollisionCheck) IN
        IF AssertUnconfigured(checker.requirements)
        THEN /\ checker' = [checker EXCEPT !.requirements = target_reqs]
             /\ optional' = [i \in DOMAIN requirements |-> requirements[i].optional]
             /\ call' = SetCall(requirements, NoError)
             /\ UNCHANGED <<active, history, calls>>
        ELSE /\ call' = SetCall(requirements, "AssertionError")
             /\ UNCHANGED <<active, optional, checker, history, calls>>

\* BasicChecker.checkRequirements(sample)
BasicCheckRequirements ==
    /\ checker.class = "BasicChecker"
    /\ \E s \in Samples :
        LET sample == s[1]
            raiser == s[2]
        IN
        IF ~AssertConfigured(checker.requirements)
        THEN /\ call' = CheckRaised(sample, raiser, "AssertionError")
             /\ UNCHANGED <<active, optional, checker, history, calls>>
        ELSE IF checker.requirements = None
        THEN \* `for req in self.requirements` on None
             /\ call' = CheckRaised(sample, raiser, "TypeError")
             /\ UNCHANGED <<active, optional, checker, history, calls>>
        ELSE LET r == BasicCheckRequirementsInner(checker.requirements, sample,
                                                  raiser) IN
             /\ call' = [NoCall EXCEPT !.op = "checkRequirements", !.sample = sample,
                                       !.raiser = raiser, !.error = r.error,
                                       !.evaluated = r.evaluated, !.result = r.result]
             /\ UNCHANGED <<active, optional, checker, history, calls>>

\* WeightedAcceptanceChecker.setRequirements(requirements), the first call
\* being given a sequence of at most n requirements.
WeightedSetRequirementsUpTo(n) ==
    /\ checker.class = "WeightedAcceptanceChecker"
    /\ \E requirements \in (IF checker.requirements = None THEN Inputs(n)
                            ELSE RetryInputs) :
        IF AssertUnconfigured(checker.requirements)
        THEN /\ checker' = [checker EXCEPT
                    !.requirements = [i \in DOMAIN requirements |-> i],
                    !.buffers = [i \in DOMAIN requirements |->
                                     InitialBuffer(checker.bufferSize)]]
             /\ optional' = [i \in DOMAIN requirements |-> requirements[i].optional]
             /\ history' = [i \in DOMAIN requirements |-> <<>>]
             /\ call' = SetCall(requirements, NoError)
             /\ UNCHANGED <<active, calls>>
        ELSE /\ call' = SetCall(requirements, "AssertionError")
             /\ UNCHANGED <<active, optional, checker, history, calls>>

WeightedSetRequirements == WeightedSetRequirementsUpTo(MaxWeightedReqs)

\* The first n entries of sequence s, all of s if it is shorter.
Latest(s, n) == SubSeq(s, 1, IF Len(s) < n THEN Len(s) ELSE n)

\* WeightedAcceptanceChecker.checkRequirements(sample).  A counted call is
\* added to `calls` and to the full record of pushed metrics; when calls are
\* not counted the record keeps, per requirement, the metrics still in its
\* buffer.
WeightedCheck(counted) ==
    /\ checker.class = "WeightedAcceptanceChecker"
    /\ IF ~AssertConfigured(checker.requirements)
       THEN \E s \in Samples :
               /\ call' = CheckRaised(s[1], s[2], "AssertionError")
               /\ UNCHANGED <<active, optional, checker, history, calls>>
       ELSE IF checker.requirements = None
       THEN \* `for req in self.requirements` on None, in sortedRequirements
            \E s \in Samples :
               /\ call' = CheckRaised(s[1], s[2], "TypeError")
               /\ UNCHANGED <<active, optional, checker, history, calls>>
       ELSE \* sortedRequirements() is called once, before the loop
            \E order \in {sortedRequirements(checker.requirements, checker.buffers,
                                              checker.bufferSize)} :
            \E s \in Samples, elapsed \in [Given -> Times] :
            \E r \in {WeightedCheckRequirementsInner(order, s[1], elapsed,
                                                     checker.buffers,
                                                     checker.bufferSize, s[2])} :
               /\ checker' = [checker EXCEPT !.buffers = r.buffers]
               /\ history' = [q \in DOMAIN history |->
                                 LET pushed ==
                                       IF q \in Range(r.evaluated)
                                       THEN <<Metrics(falsifiedBy(q, s[1]),
                                                      elapsed[q])>> \o history[q]
                                       ELSE history[q]
                                 IN IF counted THEN pushed
                                    ELSE Latest(pushed, checker.bufferSize)]
               /\ calls' = IF counted THEN calls + 1 ELSE calls
               /\ call' = [NoCall EXCEPT !.op = "checkRequirements", !.sample = s[1],
                                         !.raiser = s[2], !.error = r.error,
                                         !.order = order, !.evaluated = r.evaluated,
                                         !.result = r.result]
               /\ UNCHANGED <<active, optional>>

\* One of the MaxCalls calls followed in full.
WeightedCheckRequirements == calls < MaxCalls /\ WeightedCheck(TRUE)

\* The caller configures a weighted checker and then calls checkRequirements
\* again and again.
LiveSetRequirements == WeightedSetRequirementsUpTo(MaxLiveReqs)

LiveCheckRequirements == WeightedCheck(FALSE)

\* The environment changes a requirement's active flag between calls.
SetActive ==
    \E r \in Given :
        /\ active' = [active EXCEPT ![r] = ~@]
        /\ call' = NoCall
        /\ UNCHANGED <<optional, checker, history, calls>>

\* No requirement has been given to the checker yet.
InitRequirements ==
    /\ active = [r \in 1..MaxReqs |-> TRUE]
    /\ optional = <<>>
    /\ history = <<>>
    /\ calls = 0
    /\ call = NoCall

\* BasicChecker(initialCollisionCheck), just constructed.
InitBasic ==
    /\ InitRequirements
    /\ \E icc \in BOOLEAN :
           checker = [class |-> "BasicChecker", requirements |-> None,
                      initialCollisionCheck |-> icc, bufferSize |-> 0,
                      buffers |-> <<>>]

\* WeightedAcceptanceChecker(bufferSize), just constructed.
InitWeighted ==
    /\ InitRequirements
    /\ \E k \in 1..MaxBufferSize :
           checker = [class |-> "WeightedAcceptanceChecker", requirements |-> None,
                      initialCollisionCheck |-> FALSE, bufferSize |-> k,
                      buffers |-> <<>>]

Init == InitBasic \/ InitWeighted

NextBasic == BasicSetRequirements \/ BasicCheckRequirements \/ SetActive

NextWeighted == WeightedSetRequirements \/ WeightedCheckRequirements \/ SetActive

Next == NextBasic \/ NextWeighted

\* A checker of either class.
Spec == Init /\ [][Next]_vars

\* A BasicChecker.
SpecBasic == InitBasic /\ [][NextBasic]_vars

\* A WeightedAcceptanceChecker.
SpecWeighted == InitWeighted /\ [][NextWeighted]_vars

NextLive == LiveSetRequirements \/ LiveCheckRequirements \/ SetActive

\* A WeightedAcceptanceChecker whose caller never stops calling
\* checkRequirements (the sampling loop draws and checks samples without end).
SpecLive == InitWeighted /\ [][NextLive]_vars /\ WF_vars(LiveCheckRequirements)

\* ------------------------------------------------------------- claims

Configured == checker.requirements # None

\* s is strictly increasing: as positions of the configured sequence, s keeps
\* the original relative order and repeats nothing.
Increasing(s) == \A i, j \in DOMAIN s : i < j => s[i] < s[j]

\* C1: setRequirements on an already configured checker of either class raises
\* AssertionError and leaves the stored requirements and, for the weighted
\* checker, every buffer as they were before the call.
C1_SecondSetRequirementsFails ==
    [][(call'.op = "setRequirements" /\ Configured)
          => /\ call'.error = "AssertionError"
             /\ checker' = checker
             /\ optional' = optional
             /\ history' = history]_vars

\* A weighted checker with a non-initial buffer has just refused a second
\* setRequirements.
C1_Witness ==
    /\ checker.class = "WeightedAcceptanceChecker"
    /\ call.op = "setRequirements"
    /\ call.error = "AssertionError"
    /\ \E r \in Given : checker.buffers[r] # [i \in 1..checker.bufferSize |-> <<0, 0>>]

\* C2: checkRequirements on a checker of either class that was never configured
\* raises AssertionError before any falsifiedBy call and changes nothing, and
\* the first setRequirements after it succeeds.
C2_CheckBeforeSetRequirementsFails ==
    [][/\ (call'.op = "checkRequirements" /\ ~Configured)
            => /\ call'.error = "AssertionError"
               /\ call'.evaluated = <<>>
               /\ UNCHANGED <<active, optional, checker, history, calls>>
       /\ (call.op = "checkRequirements" /\ call.error = "AssertionError"
           /\ call'.op = "setRequirements")
            => /\ call'.error = NoError
               /\ checker'.requirements # None]_vars

\* A checkRequirements has just been refused on an unconfigured checker.
C2_Witness ==
    /\ call.op = "checkRequirements"
    /\ call.error = "AssertionError"
    /\ ~Configured

\* C3: whatever BasicChecker.setRequirements is given, every non-optional
\* requirement is retained and the retained sequence is a subsequence of the
\* input (original relative order).
C3_BasicInclusion ==
    (checker.class = "BasicChecker" /\ Configured)
        => /\ \A r \in Given : ~optional[r] => r \in Range(checker.requirements)
           /\ Range(checker.requirements) \subseteq Given
           /\ Increasing(checker.requirements)

\* setRequirements has just retained two non-optional requirements of
\* different classes around a dropped optional one.
C3_Witness ==
    /\ checker.class = "BasicChecker"
    /\ call.op = "setRequirements"
    /\ call.error = NoError
    /\ \E a, b, c \in Given :
          /\ a < b /\ b < c
          /\ ~optional[a] /\ optional[b] /\ ~optional[c]
          /\ b \notin Range(checker.requirements)
          /\ call.requirements[a].kind # call.requirements[c].kind

\* C4: BasicChecker.setRequirements retains an optional requirement iff it is a
\* blanket-collision requirement, initialCollisionCheck is true and the input
\* holds at least 3 intersection requirements (optional ones counted); no
\* checkRequirements call evaluates a dropped optional requirement.
C4_BasicOptionalGating ==
    /\ (checker.class = "BasicChecker" /\ call.op = "setRequirements"
        /\ call.error = NoError)
         => \A i \in DOMAIN call.requirements :
               call.requirements[i].optional
                 => (i \in Range(checker.requirements)
                       <=> /\ call.requirements[i].kind = "BlanketCollision"
                           /\ checker.initialCollisionCheck
                           /\ Cardinality({j \in DOMAIN call.requirements :
                                  call.requirements[j].kind = "Intersection"}) >= 3)
    /\ (checker.class = "BasicChecker" /\ call.op = "checkRequirements"
        /\ call.error = NoError)
         => \A r \in Given :
               (optional[r] /\ r \notin Range(checker.requirements))
                  => r \notin Range(call.evaluated)

\* An optional blanket-collision requirement has just been retained on the
\* strength of exactly 3 intersection requirements, one of them optional (and
\* itself dropped).
C4_Witness ==
    /\ checker.class = "BasicChecker"
    /\ call.op = "setRequirements"
    /\ call.error = NoError
    /\ Cardinality({j \in DOMAIN call.requirements :
                       call.requirements[j].kind = "Intersection"}) = 3
    /\ \E i, j \in DOMAIN call.requirements :
          /\ call.requirements[i].optional
          /\ call.requirements[i].kind = "BlanketCollision"
          /\ i \in Range(checker.requirements)
          /\ call.requirements[j].optional
          /\ call.requirements[j].kind = "Intersection"
          /\ j \notin Range(checker.requirements)

\* The positions of the retained sequence whose requirement is active now and
\* falsified by the sample of the call.
BasicRejecting ==
    {i \in DOMAIN checker.requirements :
        active[checker.requirements[i]] /\ checker.requirements[i] \in call.sample}

\* C5: BasicChecker.checkRequirements returns the violationMsg of the first
\* retained requirement that is active and falsified, none if there is none;
\* it evaluates exactly the active retained requirements up to and including
\* that one, so inactive requirements and those after it are never evaluated.
C5_BasicShortCircuit ==
    (checker.class = "BasicChecker" /\ call.op = "checkRequirements"
     /\ call.error = NoError)
        => LET reqs == checker.requirements
               last == IF BasicRejecting = {} THEN Len(reqs)
                       ELSE CHOOSE i \in BasicRejecting :
                                \A j \in BasicRejecting : i <= j
           IN /\ call.result = IF BasicRejecting = {} THEN NoViolation
                               ELSE violationMsg(reqs[last])
              /\ call.evaluated =
                    SelectSeq(SubSeq(reqs, 1, last), LAMBDA r : active[r])

\* A call has just returned the message of a requirement that follows an
\* inactive falsified one and an active passing one, and precedes another
\* active falsified one.
C5_Witness ==
    /\ checker.class = "BasicChecker"
    /\ call.op = "checkRequirements"
    /\ call.error = NoError
    /\ \E i, j, k, l \in DOMAIN checker.requirements :
          LET reqs == checker.requirements IN
          /\ i < k /\ j < k /\ k < l
          /\ ~active[reqs[i]] /\ reqs[i] \in call.sample
          /\ active[reqs[j]] /\ reqs[j] \notin call.sample
          /\ active[reqs[k]] /\ reqs[k] \in call.sample
          /\ active[reqs[l]] /\ reqs[l] \in call.sample
          /\ call.result = violationMsg(reqs[k])

Weighted == checker.class = "WeightedAcceptanceChecker"

\* A weighted checkRequirements call has just returned.
WeightedChecked ==
    Weighted /\ call.op = "checkRequirements" /\ call.error = NoError

\* The list sortedRequirements returns in the current state.
Sorted ==
    sortedRequirements(checker.requirements, checker.buffers, checker.bufferSize)

\* The score of requirement r in the current state, as a fraction.
Score(r) == getWeightedAcceptanceProb(checker.buffers, r, checker.bufferSize)

\* The prefix of `order` up to and including its first requirement that the
\* sample falsifies (all of it if there is none).
UpToFirstRejection(order, sample) ==
    LET rejecting == {i \in DOMAIN order : order[i] \in sample}
    IN IF rejecting = {} THEN order
       ELSE SubSeq(order, 1, CHOOSE i \in rejecting : \A j \in rejecting : i <= j)

\* C6: right after WeightedAcceptanceChecker.setRequirements every requirement
\* has score 0, and the first checkRequirements call evaluates the active
\* requirements in configured order, without the optional requirements that no
\* active non-optional requirement follows, up to the first rejection.
C6_WeightedInitialExploration ==
    /\ (Weighted /\ Configured /\ calls = 0)
         => \A r \in Given : Score(r)[1] = 0 /\ Score(r)[2] > 0
    /\ (WeightedChecked /\ calls = 1)
         => LET kept(r) == /\ active[r]
                           /\ \E q \in Given : q >= r /\ active[q] /\ ~optional[q]
                expected == SelectSeq(checker.requirements, kept)
            IN /\ call.order = expected
               /\ call.evaluated = UpToFirstRejection(expected, call.sample)

\* The first call has just evaluated an optional requirement, then rejected on
\* the non-optional one after it, an active optional requirement at the end of
\* the configured order being left out.
C6_Witness ==
    /\ WeightedChecked
    /\ calls = 1
    /\ \E a, b, c \in Given :
          /\ a < b /\ b < c
          /\ optional[a] /\ ~optional[b] /\ optional[c]
          /\ active[a] /\ active[b] /\ active[c]
          /\ call.evaluated = <<a, b>>
          /\ call.result = violationMsg(b)

\* C7: with bufferSize k, the buffer of a requirement evaluated n times holds,
\* most recent first, its min(n,k) most recent metrics and then k - min(n,k)
\* entries (0,0).
C7_SlidingWindow ==
    (Weighted /\ Configured)
        => \A r \in Given :
              LET k == checker.bufferSize
                  n == Len(history[r])
              IN /\ Len(checker.buffers[r]) = k
                 /\ \A i \in 1..k :
                       checker.buffers[r][i] =
                           IF i <= n THEN history[r][i] ELSE <<0, 0>>

\* A requirement has been evaluated more often than its buffer is long, with
\* different metrics, and another one less often.
C7_Witness ==
    /\ Weighted
    /\ \E r, q \in Given :
          /\ Len(history[r]) > checker.bufferSize
          /\ history[r][1] # history[r][2]
          /\ history[r][2] # <<0, 0>>
          /\ Len(history[q]) < Len(history[r])

\* C8: in every state sortedRequirements is the score-sorted list of the active
\* requirements without its maximal trailing run of optional ones: it is empty
\* or ends with a non-optional requirement, holds every active non-optional
\* requirement, and keeps in its place every optional requirement sorted before
\* an active non-optional one.
C8_TrailingTrim ==
    (Weighted /\ Configured)
        => LET all == SortByKey(ActiveReqs(checker.requirements), checker.buffers,
                                checker.bufferSize)
           IN /\ Len(Sorted) <= Len(all)
              /\ Sorted = SubSeq(all, 1, Len(Sorted))
              /\ \A i \in DOMAIN all : i > Len(Sorted) => optional[all[i]]
              /\ Sorted # <<>> => ~optional[Sorted[Len(Sorted)]]
              /\ \A r \in Given : (active[r] /\ ~optional[r]) => r \in Range(Sorted)
              /\ \A i, j \in DOMAIN all :
                    (i < j /\ optional[all[i]] /\ ~optional[all[j]])
                        => (i <= Len(Sorted) /\ Sorted[i] = all[i])

\* An optional requirement of strictly lower score than the non-optional one
\* after it is kept first, and an optional requirement sorted last is trimmed.
C8_Witness ==
    /\ Weighted
    /\ Configured
    /\ Len(Sorted) = 2
    /\ optional[Sorted[1]]
    /\ KeyLess(Score(Sorted[1]), Score(Sorted[2]))
    /\ \E r \in Given :
          /\ active[r] /\ optional[r] /\ r \notin Range(Sorted)
          /\ KeyLess(Score(Sorted[2]), Score(r))

\* C9: a weighted checkRequirements call leaves the buffer of every requirement
\* it excludes, as inactive or as a trimmed trailing optional, as it was.
C9_NoUpdateOnSkip ==
    [][(Weighted /\ Configured /\ call'.op = "checkRequirements")
          => \A r \in Given :
                (~active[r] \/ r \notin Range(Sorted))
                    => checker'.buffers[r] = checker.buffers[r]]_vars

\* A call that evaluated something has just left alone an inactive requirement
\* and a trimmed optional one, both with earlier metrics in their buffers.
C9_Witness ==
    /\ WeightedChecked
    /\ call.evaluated # <<>>
    /\ \E r, q \in Given :
          /\ ~active[r] /\ history[r] # <<>>
          /\ checker.buffers[r][1][1] = 1
          /\ active[q] /\ optional[q] /\ q \notin Range(call.order)
          /\ history[q] # <<>>

\* C10: one weighted checkRequirements call that returns evaluates the requirements in the
\* order sortedRequirements gives at its start, up to and including the first
\* that rejects; each evaluated requirement gets exactly one metric pushed, with
\* accepted = 1 iff falsifiedBy returned false; the others get none; the result
\* is the violationMsg of the rejecting requirement, none if there is none.
C10_WeightedCall ==
    [][(Weighted /\ Configured /\ call'.op = "checkRequirements"
        /\ call'.error = NoError)
          => LET order == Sorted
                 done == UpToFirstRejection(order, call'.sample)
                 k == checker.bufferSize
             IN /\ call'.evaluated = done
                /\ call'.result =
                      IF Range(order) \cap call'.sample = {} THEN NoViolation
                      ELSE violationMsg(done[Len(done)])
                /\ \A r \in Given :
                      IF r \in Range(done)
                      THEN /\ checker'.buffers[r][1][1] =
                                 (IF r \in call'.sample THEN 0 ELSE 1)
                           /\ checker'.buffers[r][1][2] \in Times
                           /\ SubSeq(checker'.buffers[r], 2, k)
                                 = SubSeq(checker.buffers[r], 1, k - 1)
                           /\ Len(history'[r]) = Len(history[r]) + 1
                      ELSE /\ checker'.buffers[r] = checker.buffers[r]
                           /\ history'[r] = history[r]]_vars

\* A call over three requirements has just passed the first, rejected on the
\* second and left the third alone, and the metric pushed for the first would
\* now sort it elsewhere.
C10_Witness ==
    /\ WeightedChecked
    /\ Len(call.order) = 3
    /\ Len(call.evaluated) = 2
    /\ call.evaluated[1] \notin call.sample
    /\ call.result = violationMsg(call.evaluated[2])
    /\ call.order[3] \in call.sample
    /\ Sorted # call.order

\* The list sortedRequirements builds before it trims it.
SortedUntrimmed ==
    SortByKey(ActiveReqs(checker.requirements), checker.buffers, checker.bufferSize)

\* x <= y and x = y for two scores, as fractions of positive denominator.
ScoreLeq(x, y) == x[1] * y[2] <= y[1] * x[2]

ScoreEq(x, y) == x[1] * y[2] = y[1] * x[2]

\* C11: the list sortedRequirements builds before trimming holds every active
\* requirement once, in non-decreasing score order, two requirements of equal
\* score being in the order of the sequence given to setRequirements.
C11_StableSort ==
    (Weighted /\ Configured)
        => LET all == SortedUntrimmed IN
           /\ Range(all) = {r \in Given : active[r]}
           /\ Len(all) = Cardinality(Range(all))
           /\ \A i, j \in DOMAIN all :
                 i < j => /\ ScoreLeq(Score(all[i]), Score(all[j]))
                          /\ ScoreEq(Score(all[i]), Score(all[j])) => all[i] < all[j]

\* The requirement configured last sorts first, before two requirements of
\* equal positive score that keep their configured order.
C11_Witness ==
    /\ Weighted
    /\ Configured
    /\ Len(SortedUntrimmed) = 3
    /\ SortedUntrimmed[1] > SortedUntrimmed[3]
    /\ SortedUntrimmed[2] < SortedUntrimmed[3]
    /\ Score(SortedUntrimmed[2])[1] > 0
    /\ ScoreEq(Score(SortedUntrimmed[2]), Score(SortedUntrimmed[3]))
    /\ ~ScoreEq(Score(SortedUntrimmed[1]), Score(SortedUntrimmed[2]))

\* The metrics of requirement r that are still in its buffer: its most recent
\* bufferSize ones.
Recent(r) ==
    SubSeq(history[r], 1,
           IF Len(history[r]) < checker.bufferSize THEN Len(history[r])
           ELSE checker.bufferSize)

\* C12: a requirement's score is (accepted evaluations among its most recent
\* bufferSize / bufferSize) * (their total elapsed time / bufferSize), the
\* divisor being bufferSize also while the buffer still holds initial (0,0)
\* entries; with bufferSize 2, one passing evaluation of time t gives buffer
\* [(1,t),(0,0)] and score (1/2)*(t/2), and a rejecting one of time u after it
\* gives buffer [(0,u),(1,t)].
C12_Score ==
    (Weighted /\ Configured)
        => \A r \in Given :
              LET k == checker.bufferSize
                  accepted == Cardinality({i \in DOMAIN Recent(r) : Recent(r)[i][1] = 1})
                  rejected == Cardinality({i \in DOMAIN Recent(r) : Recent(r)[i][1] = 0})
                  time == SumField(Recent(r), 2)
              IN /\ accepted + rejected = Len(Recent(r))
                 /\ Score(r)[1] * k * k = accepted * time * Score(r)[2]
                 /\ (k = 2 /\ Len(history[r]) = 1 /\ history[r][1][1] = 1)
                       => /\ checker.buffers[r] = <<history[r][1], <<0, 0>>>>
                          /\ 4 * Score(r)[1] = history[r][1][2] * Score(r)[2]
                 /\ (k = 2 /\ Len(history[r]) = 2 /\ history[r][2][1] = 1
                     /\ history[r][1][1] = 0)
                       => /\ checker.buffers[r] = <<history[r][1], history[r][2]>>
                          /\ 4 * Score(r)[1]
                                = (history[r][1][2] + history[r][2][2]) * Score(r)[2]

\* With bufferSize 2, a requirement that passed in time 1 has just rejected in
\* time 1.
C12_Witness ==
    /\ WeightedChecked
    /\ checker.bufferSize = 2
    /\ \E r \in Given :
          /\ history[r] = <<<<0, 1>>, <<1, 1>>>>
          /\ call.result = violationMsg(r)

\* C13: once WeightedAcceptanceChecker.setRequirements has returned, the
\* checker holds the whole sequence it was given, one buffer for each of its
\* requirements (optional and inactive ones included) and no other, and every
\* buffer has exactly bufferSize entries, whatever calls followed.
C13_BuffersShape ==
    /\ (Weighted /\ Configured)
         => /\ checker.requirements = [i \in 1..Cardinality(Given) |-> i]
            /\ DOMAIN checker.buffers = Given
            /\ \A r \in Given : Len(checker.buffers[r]) = checker.bufferSize
    /\ (Weighted /\ call.op = "setRequirements" /\ call.error = NoError)
         => /\ Len(checker.requirements) = Len(call.requirements)
            /\ DOMAIN checker.buffers = DOMAIN call.requirements

\* After the last call followed, a never evaluated optional requirement, an
\* inactive requirement and a requirement evaluated more often than its buffer
\* is long all have their buffer.
C13_Witness ==
    /\ WeightedChecked
    /\ calls = MaxCalls
    /\ \E r, q, p \in Given :
          /\ optional[r] /\ history[r] = <<>>
          /\ ~active[q]
          /\ Len(history[p]) > checker.bufferSize

\* Every entry of the buffer of r is (0,0).
AllZero(r) == \A i \in DOMAIN checker.buffers[r] : checker.buffers[r][i] = <<0, 0>>

\* C15: every score is >= 0, a requirement whose buffer is all (0,0) has score
\* exactly 0, and the sort never places it after a requirement of strictly
\* positive score.
C15_ZeroScoreFirst ==
    (Weighted /\ Configured)
        => /\ \A r \in Given :
                 /\ Score(r)[2] > 0
                 /\ Score(r)[1] >= 0
                 /\ AllZero(r) => Score(r)[1] = 0
           /\ \A i, j \in DOMAIN SortedUntrimmed :
                 (i < j /\ Score(SortedUntrimmed[i])[1] > 0)
                    => ~AllZero(SortedUntrimmed[j])

\* A never evaluated requirement sorts before a requirement of positive score
\* that was configured before it.
C15_Witness ==
    /\ Weighted
    /\ Configured
    /\ \E i, j \in DOMAIN SortedUntrimmed :
          /\ i < j
          /\ SortedUntrimmed[i] > SortedUntrimmed[j]
          /\ history[SortedUntrimmed[i]] = <<>>
          /\ AllZero(SortedUntrimmed[i])
          /\ Score(SortedUntrimmed[j])[1] > 0

\* The requirements a checkRequirements call starting in the current state
\* goes through, in order, as long as falsifiedBy returns false.
EvaluationOrder ==
    IF Weighted THEN Sorted
    ELSE SelectSeq(checker.requirements, LAMBDA r : active[r])

\* C16: a checkRequirements call on a configured checker leaves the stored
\* requirement sequence as it was; on a BasicChecker it changes nothing of the
\* checker, and what it returns is fixed by the sample and the active flags:
\* the message of the first active retained requirement the sample falsifies,
\* none without one; on a weighted checker it changes nothing but the buffers
\* of the requirements it evaluated.
C16_CheckFrame ==
    [][(Configured /\ call'.op = "checkRequirements")
          => /\ checker'.requirements = checker.requirements
             /\ optional' = optional
             /\ active' = active
             /\ ~Weighted
                  => /\ checker' = checker
                     /\ call'.error = NoError
                          => LET done == UpToFirstRejection(EvaluationOrder,
                                                            call'.sample)
                             IN call'.result =
                                  IF Range(EvaluationOrder) \cap call'.sample = {}
                                  THEN NoViolation
                                  ELSE violationMsg(done[Len(done)])
             /\ Weighted
                  => /\ checker' = [checker EXCEPT !.buffers = checker'.buffers]
                     /\ DOMAIN checker'.buffers = DOMAIN checker.buffers
                     /\ \A r \in Given :
                           r \notin Range(call'.evaluated)
                              => checker'.buffers[r] = checker.buffers[r]]_vars

\* A weighted call has just evaluated one requirement and stopped before
\* another one whose buffer holds an earlier metric.
C16_Witness ==
    /\ WeightedChecked
    /\ call.evaluated # <<>>
    /\ \E r \in Range(call.order) :
          /\ r \notin Range(call.evaluated)
          /\ history[r] # <<>>
          /\ ~AllZero(r)

\* C17: when falsifiedBy raises on a requirement a checkRequirements call
\* reaches, the call raises: the requirements before it were evaluated once
\* each, it is not evaluated again and nothing after it is evaluated.  The
\* stored requirements are unchanged; a BasicChecker is unchanged; in a
\* weighted checker each requirement evaluated before it has its one metric
\* (accepted = 1) pushed, and the buffer of the raising requirement and of
\* every other requirement is unchanged.  A call that reaches no raising
\* requirement, after such a call too, does not raise.
C17_FalsifiedByRaises ==
    [][(Configured /\ call'.op = "checkRequirements")
          => LET cut == UpToFirstRejection(EvaluationOrder,
                                           call'.sample \cup {call'.raiser})
                 reached == call'.raiser \in Range(cut)
                 k == checker.bufferSize
             IN /\ call'.error = IF reached THEN "Exception" ELSE NoError
                /\ Configured'
                /\ reached
                     => /\ call'.evaluated = SubSeq(cut, 1, Len(cut) - 1)
                        /\ call'.result = NoViolation
                        /\ checker'.requirements = checker.requirements
                        /\ ~Weighted => checker' = checker
                        /\ Weighted
                             => \A r \in Given :
                                   IF r \in Range(call'.evaluated)
                                   THEN /\ checker'.buffers[r][1][1] = 1
                                        /\ SubSeq(checker'.buffers[r], 2, k)
                                              = SubSeq(checker.buffers[r], 1, k - 1)
                                        /\ Len(history'[r]) = Len(history[r]) + 1
                                   ELSE /\ checker'.buffers[r] = checker.buffers[r]
                                        /\ history'[r] = history[r]]_vars

\* A weighted call has just raised on the second of three requirements in its
\* order, whose buffer holds an earlier metric, after evaluating the first.
C17_Witness ==
    /\ Weighted
    /\ call.op = "checkRequirements"
    /\ call.error = "Exception"
    /\ Len(call.order) = 3
    /\ call.order[2] = call.raiser
    /\ call.evaluated = <<call.order[1]>>
    /\ history[call.raiser] # <<>>
    /\ ~AllZero(call.raiser)
    /\ call.order[3] \in call.sample

\* C18: when every active requirement is optional (or none is active),
\* sortedRequirements is empty and a weighted checkRequirements call evaluates
\* nothing, changes no buffer and returns none, whatever the sample.
C18_AllOptionalAccepts ==
    [][(Weighted /\ Configured /\ call'.op = "checkRequirements"
        /\ \A r \in Given : active[r] => optional[r])
          => /\ Sorted = <<>>
             /\ call'.order = <<>>
             /\ call'.evaluated = <<>>
             /\ call'.error = NoError
             /\ call'.result = NoViolation
             /\ checker' = checker
             /\ history' = history]_vars

\* A sample every requirement falsifies has just been accepted: the active
\* requirements are optional, one of them evaluated in an earlier call, and a
\* non-optional requirement is inactive.
C18_Witness ==
    /\ WeightedChecked
    /\ call.order = <<>>
    /\ call.result = NoViolation
    /\ call.sample = Given
    /\ \A r \in Given : active[r] => optional[r]
    /\ \E r, q \in Given :
          /\ active[r] /\ history[r] # <<>>
          /\ ~active[q] /\ ~optional[q]

\* C19: a weighted checkRequirements call that returns none was given a sample
\* that falsifies no active non-optional requirement (so a sample falsifying
\* one is rejected with a message), and a message it returns is the
\* violationMsg of a requirement that is active and falsified by the sample.
C19_WeightedSound ==
    WeightedChecked
        => /\ call.result = NoViolation
                => \A r \in Given : (active[r] /\ ~optional[r]) => r \notin call.sample
           /\ (\E r \in Given : active[r] /\ ~optional[r] /\ r \in call.sample)
                => \E q \in Given : call.result = violationMsg(q)
           /\ call.result # NoViolation
                => \E q \in Given : /\ active[q]
                                     /\ q \in call.sample
                                     /\ call.result = violationMsg(q)

\* With an inactive falsified requirement left out and the order changed by
\* earlier metrics, a call has just returned the message of the second
\* requirement of its order.
C19_Witness ==
    /\ WeightedChecked
    /\ Len(call.order) = 2
    /\ call.order[1] > call.order[2]
    /\ call.result = violationMsg(call.order[2])
    /\ \E r \in Given : ~active[r] /\ ~optional[r] /\ r \in call.sample

\* What a BasicChecker(initialCollisionCheck) configured with the requirements
\* of the current state, of classes `kinds`, does on a sample.
BasicOn(kinds, initialCollisionCheck, sample, raiser) ==
    BasicCheckRequirementsInner(
        TargetReqs([i \in Given |-> [optional |-> optional[i], kind |-> kinds[i]]],
                   initialCollisionCheck),
        sample, raiser)

\* C20: when no configured requirement is optional, a weighted checker, in
\* any state of its buffers, and a BasicChecker configured with the same
\* sequence return none on the same samples (same active flags, falsifiedBy
\* returning on every requirement); the message may differ.
C20_SameVerdict ==
    (WeightedChecked /\ call.raiser = NoRaiser /\ \A r \in Given : ~optional[r])
        => \A kinds \in [Given -> Kinds], initialCollisionCheck \in BOOLEAN :
              LET basic == BasicOn(kinds, initialCollisionCheck, call.sample,
                                   call.raiser)
              IN /\ basic.error = NoError
                 /\ (call.result = NoViolation) <=> (basic.result = NoViolation)

\* With no optional requirement, a weighted call has just rejected with the
\* message of another requirement than a BasicChecker reports.
C20_Witness ==
    /\ WeightedChecked
    /\ call.raiser = NoRaiser
    /\ \A r \in Given : ~optional[r]
    /\ call.result # NoViolation
    /\ \E r \in Given : ~active[r] /\ r \in call.sample
    /\ BasicOn([i \in Given |-> "Other"], FALSE, call.sample, call.raiser).result
          \notin {NoViolation, call.result}

\* A weighted checkRequirements call has just returned none.
Accepted == WeightedChecked /\ call.result = NoViolation

\* Requirement r is configured and not optional.
Mandatory(r) == Weighted /\ Configured /\ r \in Given /\ ~optional[r]

\* A weighted checkRequirements call has just evaluated requirement r.
JustEvaluated(r) ==
    Weighted /\ call.op = "checkRequirements" /\ r \in Range(call.evaluated)

\* Requirement r has been evaluated by some checkRequirements call.
Evaluated(r) == Weighted /\ r \in Given /\ history[r] # <<>>

\* C14 as stated: under checkRequirements calls without end, a non-optional
\* requirement is evaluated at some time, unless it is inactive at some later
\* time (or a later call raises).
C14_NoStarvation ==
    \A r \in 1..MaxLiveReqs :
        Mandatory(r) ~> (Evaluated(r) \/ ~active[r] \/ call.error = "Exception")

\* C14, amended: under checkRequirements calls without end of which
\* infinitely many return none, a non-optional requirement is evaluated again
\* and again, unless it is inactive at some later time.
C14_EvaluatedWhenAccepting ==
    \A r \in 1..MaxLiveReqs :
        []<>Accepted => (Mandatory(r) ~> (JustEvaluated(r) \/ ~active[r]))

\* A call has just returned none and evaluated, for the first time, a
\* non-optional requirement that an earlier call did not reach because the
\* requirement before it rejected.
C14_Witness ==
    /\ Accepted
    /\ \E a, b \in Given :
          /\ ~optional[b]
          /\ b \in Range(call.evaluated)
          /\ Len(history[b]) = 1
          /\ Len(history[a]) = 2
          /\ history[a][2][1] = 0

====
